---- MODULE Spec2Model ----
(***************************************************************************)
(* A state-machine model of the multi-provider routing and fallback engine *)
(* of src/intelligence/model_pipeline.py (MultiModelPipeline and its four  *)
(* ModelProvider variants), with the configuration records of              *)
(* src/core/core/config_manager.py as its input.                           *)
(*                                                                         *)
(* The program is single-threaded asyncio code: a coroutine runs without   *)
(* interruption from one suspension point (an awaited network call, an     *)
(* awaited session close) to the next.  Every action below is one such     *)
(* uninterrupted stretch of one coroutine.                                 *)
(*                                                                         *)
(* Response.confidence is a float in the source; the model keeps it in     *)
(* hundredths (0.9 is 90).  execution_time and tokens_used are wall-clock  *)
(* and backend-supplied numbers that no decision of the code reads; the    *)
(* model's ModelResponse leaves them out.                                  *)
(***************************************************************************)
EXTENDS Integers, Sequences, FiniteSets, TLC

VARIABLES
    agent,              \* AgentZero: its environment and config file, where run,
                        \* its task loop, its shutdowns and its health check are
    provider_configs,   \* MultiModelPipeline.config["providers"]
    providers,          \* MultiModelPipeline.providers, in insertion order
    session,            \* ModelProvider.session of each adapter
    available,          \* ModelProvider.available of each adapter
    init,               \* the MultiModelPipeline.initialise coroutine
    gen,                \* the MultiModelPipeline.generate_response coroutine
    hc,                 \* the MultiModelPipeline.health_check coroutine
    conn,               \* the MultiModelPipeline.check_api_connectivity coroutine
    sd,                 \* the MultiModelPipeline.shutdown coroutine
    call                \* a generate_response coroutine of one adapter, called
                        \* on the adapter itself and not through the pipeline

vars ==
    <<agent, provider_configs, providers, session, available, init, gen, hc, conn, sd, call>>

(***************************************************************************)
(* Bounds of the model.                                                    *)
(***************************************************************************)
\* How many entries of the providers configuration may differ from the
\* default record with its secret resolved.
MaxIrregular == 1

\* How many termination signals the agent receives.
MaxSignals == 1

(***************************************************************************)
(* Values.                                                                 *)
(***************************************************************************)
\* Python's None.
None == "<None>"

\* class TaskType
TaskType ==
    {"code_analysis", "code_generation", "problem_solving", "system_admin",
     "web_automation", "general", "fast_query"}

\* A task_type argument that is no key of routing_strategy.
UnmappedTask == "unmapped"

Tasks == TaskType \cup {UnmappedTask}

\* The order in which MultiModelPipeline.initialise fills self.providers.
ProviderOrder == <<"groq", "mistral_codestral", "openrouter", "huggingface">>

ProviderNames == {ProviderOrder[i] : i \in 1..Len(ProviderOrder)}

\* What an awaited backend call can come back with: status 200 and the
\* expected payload, status 200 and a payload without the expected fields,
\* another status, or a transport error (timeout, reset, closed session).
NetOutcomes == {"ok200", "bad_payload", "http_error", "net_error"}

\* Confidence values of the source, in hundredths.
GroqConfidence == 90
CodestralConfidence == 95
OpenRouterConfidence == 85
HuggingFaceConfidence == 70
FailureConfidence == 0

(***************************************************************************)
(* Configuration records (config_manager.py).  A record is a function from *)
(* its keys to strings; nested keys are written with a dot.                *)
(***************************************************************************)
DefaultConfig(p) ==
    CASE p = "groq" ->
            ("api_key" :> "${GROQ_API_KEY}")
         @@ ("endpoint" :> "https://api.groq.com/openai/v1")
         @@ ("models.fast" :> "llama-3.3-70b-versatile")
         @@ ("models.reasoning" :> "mixtral-8x22b-instruct-v0.1")
         @@ ("models.code" :> "llama-3.1-70b-versatile")
      [] p = "openrouter" ->
            ("api_key" :> "${OPENROUTER_API_KEY}")
         @@ ("endpoint" :> "https://openrouter.ai/api/v1")
         @@ ("models.kimi_k2" :> "moonshot/moonshot-v1-32k")
         @@ ("models.deepseek" :> "deepseek/deepseek-r1:free")
      [] p = "mistral_codestral" ->
            ("api_key" :> "${MISTRAL_API_KEY}")
         @@ ("endpoint" :> "https://codestral.mistral.ai/v1")
         @@ ("model" :> "codestral-latest")
         @@ ("max_tokens" :> "8192")
      [] p = "huggingface" ->
            ("api_key" :> "${HUGGINGFACE_API_KEY}")
         @@ ("endpoint" :> "https://api-inference.huggingface.co")
         @@ ("models.browser_use" :> "microsoft/DialoGPT-medium")
         @@ ("models.embeddings" :> "sentence-transformers/all-MiniLM-L6-v2")

Without(cfg, k) == [x \in DOMAIN cfg \ {k} |-> cfg[x]]

\* A key of the record that only generate_response reads.
GenerationOnlyKey(p) ==
    CASE p = "groq" -> "models.code"
      [] p = "openrouter" -> "models.kimi_k2"
      [] p = "mistral_codestral" -> "max_tokens"
      [] p = "huggingface" -> "models.browser_use"

\* The configuration records the model draws a provider's entry from: the
\* default record with its secret resolved from the environment, with the
\* placeholder left as it is (the variable is not set), with an empty secret,
\* and a record without one of its model keys (MultiModelPipeline takes any
\* dictionary as its configuration).
ConfigKinds == {"resolved", "placeholder", "nokey", "partial"}

ConfigOfKind(p, kind) ==
    CASE kind = "placeholder" -> DefaultConfig(p)
      [] kind = "resolved" -> [DefaultConfig(p) EXCEPT !["api_key"] = "secret"]
      [] kind = "nokey" -> [DefaultConfig(p) EXCEPT !["api_key"] = ""]
      [] kind = "partial" ->
            Without([DefaultConfig(p) EXCEPT !["api_key"] = "secret"],
                    GenerationOnlyKey(p))

\* dict.get(k) is truthy
Truthy(cfg, k) == k \in DOMAIN cfg /\ cfg[k] # ""

\* The environment variable each default api_key names.
EnvVar(p) ==
    CASE p = "groq" -> "GROQ_API_KEY"
      [] p = "openrouter" -> "OPENROUTER_API_KEY"
      [] p = "mistral_codestral" -> "MISTRAL_API_KEY"
      [] p = "huggingface" -> "HUGGINGFACE_API_KEY"

EnvVars == {EnvVar(p) : p \in ProviderNames}

\* The string "${" + var + "}".
Placeholder(var) ==
    CASE var = "GROQ_API_KEY" -> "${GROQ_API_KEY}"
      [] var = "OPENROUTER_API_KEY" -> "${OPENROUTER_API_KEY}"
      [] var = "MISTRAL_API_KEY" -> "${MISTRAL_API_KEY}"
      [] var = "HUGGINGFACE_API_KEY" -> "${HUGGINGFACE_API_KEY}"

\* v.startswith("${") and v.endswith("}"), on the strings of the records:
\* those of the four placeholders are the only ones of that form.
IsPlaceholder(v) == \E var \in EnvVars : v = Placeholder(var)

\* v[2:-1]
PlaceholderVar(v) == CHOOSE var \in EnvVars : v = Placeholder(var)

\* ConfigManager.substitute_environment_variables on one provider record:
\* os.getenv(env_var, config_dict) leaves a placeholder as it is when the
\* variable is not set.  env is the set of variables that are set; the
\* value of each is written "secret".
substitute_environment_variables(cfg, env) ==
    [k \in DOMAIN cfg |->
        IF IsPlaceholder(cfg[k]) /\ PlaceholderVar(cfg[k]) \in env
        THEN "secret"
        ELSE cfg[k]]

\* What config/agent_config.json can be: not there, not JSON, an empty
\* object, or an object that sets groq's api_key to a literal.
ConfigFiles == {"absent", "invalid", "empty", "groq_literal"}

\* ConfigManager._deep_merge of the custom file into the default providers.
deep_merge(base, config_file) ==
    IF config_file = "groq_literal"
    THEN [base EXCEPT !["groq"]["api_key"] = "literal-key"]
    ELSE base

\* validate_configuration: without any of the four keys in the environment
\* it reports an error and load_config raises ValueError.
validate_configuration(env) == env # {}

\* The providers of the configuration ConfigManager.load_config returns: the
\* defaults, and only if the custom file exists and loads, the merge with
\* it and the substitution of the environment.
load_config(env, config_file) ==
    LET default == [p \in ProviderNames |-> DefaultConfig(p)] IN
    IF config_file \in {"empty", "groq_literal"}
    THEN LET merged == deep_merge(default, config_file) IN
         [p \in ProviderNames |-> substitute_environment_variables(merged[p], env)]
    ELSE default

(***************************************************************************)
(* ModelResponse and the adapters (ModelProvider and its four variants).   *)
(***************************************************************************)
ModelResponse(content, model_used, provider, confidence, success, error) ==
    [content |-> content, model_used |-> model_used, provider |-> provider,
     confidence |-> confidence, success |-> success, error |-> error]

\* The place of a response where there is none (a raise, a call in flight).
NoResponse == ModelResponse(None, None, None, 0, FALSE, None)

\* What running a stretch of an adapter coroutine ends in: it returns
\* ("return", with resp or with the probe's flag), it raises ("raise"), or it
\* suspends at its backend call ("call").
Returned(resp) == [kind |-> "return", resp |-> resp, flag |-> FALSE]
Raised == [kind |-> "raise", resp |-> NoResponse, flag |-> FALSE]
Suspended == [kind |-> "call", resp |-> NoResponse, flag |-> FALSE]
ProbeReturned(flag) == [kind |-> "return", resp |-> NoResponse, flag |-> flag]

\* The key of the model identifier each test_connection puts in its payload
\* or URL.
ProbeModelKey(p) ==
    CASE p = "groq" -> "models.fast"
      [] p = "mistral_codestral" -> "model"
      [] p = "openrouter" -> "models.deepseek"
      [] p = "huggingface" -> "models.embeddings"

\* test_connection up to its session.post: False without a truthy api_key;
\* a KeyError on the record or a session that cannot post is caught and
\* gives False.
TestConnectionPre(p, cfg, sess) ==
    IF ~Truthy(cfg, "api_key") THEN ProbeReturned(FALSE)
    ELSE IF \/ ProbeModelKey(p) \notin DOMAIN cfg
            \/ "endpoint" \notin DOMAIN cfg
            \/ sess # "open"
         THEN ProbeReturned(FALSE)
         ELSE Suspended

\* test_connection after its session.post: response.status == 200, and False
\* from the except branch on a transport error.
TestConnectionPost(outcome) == outcome \in {"ok200", "bad_payload"}

\* Mutant: test_connection has no except branch.
ProbeFaultEscapes == FALSE

\* Each test_connection wraps its request in "try: ... except Exception".
ProbeCatchesFault == TRUE

\* What test_connection ends in once its session.post has come back: the
\* flag, or the transport error when nothing catches it.
TestConnectionEnds(outcome) ==
    IF outcome = "net_error" /\ ~ProbeCatchesFault
    THEN Raised
    ELSE ProbeReturned(TestConnectionPost(outcome))

\* Mutant: the except branch forgets the error text.
FailureResponseWithoutError(p, model, error) ==
    [content |-> "", model_used |-> model, provider |-> p,
     confidence |-> 0, success |-> FALSE, error |-> None]

\* The except branch of the three network adapters, and HuggingFace's.
FailureResponse(p, model, error) ==
    ModelResponse("", model, p, FailureConfidence, FALSE, error)

GroqModelKey(task_type) ==
    IF task_type = "fast_query" THEN "models.fast"
    ELSE IF task_type = "problem_solving" THEN "models.reasoning"
    ELSE "models.code"

OpenRouterModelKey(task_type) ==
    IF task_type = "problem_solving" THEN "models.kimi_k2"
    ELSE "models.deepseek"

\* What the try block runs into before the awaited post returns: a KeyError
\* on the record, a session that is None or closed.
PostFault(cfg, sess) ==
    IF "api_key" \notin DOMAIN cfg THEN "'api_key'"
    ELSE IF "endpoint" \notin DOMAIN cfg THEN "'endpoint'"
    ELSE IF sess = "none" THEN "'NoneType' object has no attribute 'post'"
    ELSE IF sess = "closed" THEN "Session is closed"
    ELSE None

\* Mutant: the success branch reports its confidence as a percentage, 90.0
\* for 0.9.
AfterPostPercent(p, model, confidence, outcome) ==
    IF outcome = "ok200"
    THEN [content |-> "<backend content>", model_used |-> model, provider |-> p,
          confidence |-> confidence * 100, success |-> TRUE, error |-> None]
    ELSE [content |-> "", model_used |-> model, provider |-> p,
          confidence |-> 0, success |-> FALSE, error |-> "<str(e)>"]

\* The body of "async with session.post(...) as response" once the backend
\* has answered.
AfterPost(p, model, confidence, outcome) ==
    CASE outcome = "ok200" ->
            ModelResponse("<backend content>", model, p, confidence, TRUE, None)
      [] outcome \in {"bad_payload", "http_error", "net_error"} ->
            FailureResponse(p, model, "<str(e)>")

\* GroqProvider.generate_response up to its post.  The model lookup stands
\* before the try block.
GroqPre(cfg, task_type, sess) ==
    LET key == GroqModelKey(task_type) IN
    IF key \notin DOMAIN cfg THEN Raised
    ELSE IF PostFault(cfg, sess) # None
         THEN Returned(FailureResponse("groq", cfg[key], PostFault(cfg, sess)))
         ELSE Suspended

GroqPost(cfg, task_type, outcome) ==
    AfterPost("groq", cfg[GroqModelKey(task_type)], GroqConfidence, outcome)

\* OpenRouterProvider.generate_response, of the same shape.
OpenRouterPre(cfg, task_type, sess) ==
    LET key == OpenRouterModelKey(task_type) IN
    IF key \notin DOMAIN cfg THEN Raised
    ELSE IF PostFault(cfg, sess) # None
         THEN Returned(FailureResponse("openrouter", cfg[key], PostFault(cfg, sess)))
         ELSE Suspended

OpenRouterPost(cfg, task_type, outcome) ==
    AfterPost("openrouter", cfg[OpenRouterModelKey(task_type)],
              OpenRouterConfidence, outcome)

\* Mutant: Codestral does not decline a category; it posts whatever it is
\* asked.
CodestralPreWithoutDecline(cfg, task_type, sess) ==
    IF "model" \notin DOMAIN cfg THEN Raised
    ELSE IF "api_key" \notin DOMAIN cfg \/ "max_tokens" \notin DOMAIN cfg
         THEN Returned(FailureResponse("mistral_codestral", cfg["model"], "<str(e)>"))
    ELSE IF PostFault(cfg, sess) # None
         THEN Returned(FailureResponse("mistral_codestral", cfg["model"],
                                       PostFault(cfg, sess)))
         ELSE Suspended

\* MistralCodestralProvider.generate_response up to its post.  config["model"]
\* is read by the unsupported branch and by the except branch, both outside
\* any handler; config["max_tokens"] is read inside the try block.
CodestralPre(cfg, task_type, sess) ==
    IF "model" \notin DOMAIN cfg THEN Raised
    ELSE IF task_type \notin {"code_analysis", "code_generation"}
         THEN Returned(FailureResponse("mistral_codestral", cfg["model"],
                                       "Task type not supported by Codestral"))
    ELSE IF "api_key" \notin DOMAIN cfg
         THEN Returned(FailureResponse("mistral_codestral", cfg["model"], "'api_key'"))
    ELSE IF "max_tokens" \notin DOMAIN cfg
         THEN Returned(FailureResponse("mistral_codestral", cfg["model"], "'max_tokens'"))
    ELSE IF PostFault(cfg, sess) # None
         THEN Returned(FailureResponse("mistral_codestral", cfg["model"],
                                       PostFault(cfg, sess)))
         ELSE Suspended

CodestralPost(cfg, task_type, outcome) ==
    AfterPost("mistral_codestral", cfg["model"], CodestralConfidence, outcome)

\* HuggingFaceProvider.generate_response: no backend call at all.
HuggingFacePre(cfg, task_type, sess) ==
    IF task_type # "web_automation"
    THEN Returned(FailureResponse("huggingface", "N/A",
                                  "Task type not supported by HuggingFace provider"))
    ELSE IF "models.browser_use" \notin DOMAIN cfg
         THEN Returned(FailureResponse("huggingface", "N/A", "'browser_use'"))
         ELSE Returned(ModelResponse("Web automation task queued for processing",
                                     cfg["models.browser_use"], "huggingface",
                                     HuggingFaceConfidence, TRUE, None))

\* provider.generate_response(prompt, task_type) up to its first suspension.
AdapterPre(p, cfg, task_type, sess) ==
    CASE p = "groq" -> GroqPre(cfg, task_type, sess)
      [] p = "openrouter" -> OpenRouterPre(cfg, task_type, sess)
      [] p = "mistral_codestral" -> CodestralPre(cfg, task_type, sess)
      [] p = "huggingface" -> HuggingFacePre(cfg, task_type, sess)

\* ... and from the backend's answer to its return.
AdapterPost(p, cfg, task_type, outcome) ==
    CASE p = "groq" -> GroqPost(cfg, task_type, outcome)
      [] p = "openrouter" -> OpenRouterPost(cfg, task_type, outcome)
      [] p = "mistral_codestral" -> CodestralPost(cfg, task_type, outcome)

(***************************************************************************)
(* MultiModelPipeline: the routing table and the registry.                 *)
(***************************************************************************)
\* Mutant: the general order tries groq once more after openrouter.
routing_strategy_with_retry ==
    [t \in TaskType |->
        CASE t \in {"code_analysis", "code_generation"} ->
                <<"mistral_codestral", "groq", "openrouter">>
          [] t = "problem_solving" -> <<"openrouter", "groq">>
          [] t = "web_automation" -> <<"huggingface", "groq">>
          [] t \in {"system_admin", "fast_query"} -> <<"groq", "openrouter">>
          [] t = "general" -> <<"groq", "openrouter", "groq">>]

\* Mutant: the general category is routed to the code model first.
routing_strategy_codestral_first ==
    [t \in TaskType |->
        CASE t \in {"code_analysis", "code_generation"} ->
                <<"mistral_codestral", "groq", "openrouter">>
          [] t = "problem_solving" -> <<"openrouter", "groq">>
          [] t = "web_automation" -> <<"huggingface", "groq">>
          [] t \in {"system_admin", "fast_query"} -> <<"groq", "openrouter">>
          [] t = "general" -> <<"mistral_codestral", "groq", "openrouter">>]

\* MultiModelPipeline._create_routing_strategy
routing_strategy ==
    [t \in TaskType |->
        CASE t \in {"code_analysis", "code_generation"} ->
                <<"mistral_codestral", "groq", "openrouter">>
          [] t = "problem_solving" -> <<"openrouter", "groq">>
          [] t = "web_automation" -> <<"huggingface", "groq">>
          [] t \in {"system_admin", "fast_query", "general"} ->
                <<"groq", "openrouter">>]

\* Mutant: the order is walked twice.
routing_order_twice(task_type) ==
    IF task_type \in DOMAIN routing_strategy
    THEN routing_strategy[task_type] \o routing_strategy[task_type]
    ELSE <<"groq", "openrouter", "groq", "openrouter">>

\* self.routing_strategy.get(task_type, ["groq", "openrouter"])
routing_order(task_type) ==
    IF task_type \in DOMAIN routing_strategy
    THEN routing_strategy[task_type]
    ELSE <<"groq", "openrouter">>

\* provider_name in self.providers
Registered(p) == \E i \in 1..Len(providers) : providers[i] = p

\* Mutant: the guard looks the name up and does not read the flag.
EligibleIgnoringAvailability(p) == Registered(p)

\* Mutant: the guard also wants the adapter's session open.
EligibleWithOpenSession(p) == Registered(p) /\ available[p] /\ session[p] = "open"

\* The test guarding an adapter's invocation in generate_response.
Eligible(p) == Registered(p) /\ available[p]

\* Mutant: the last response names no provider and no model.
ExhaustedResponseUnnamed ==
    [content |-> "", model_used |-> None, provider |-> None,
     confidence |-> 0, success |-> FALSE,
     error |-> "All providers failed or unavailable"]

\* Mutant: the last response carries another message.
ExhaustedResponseOtherText ==
    [content |-> "", model_used |-> "none", provider |-> "none",
     confidence |-> 0, success |-> FALSE, error |-> "No provider available"]

\* The response generate_response ends with when its loop runs out.
ExhaustedResponse ==
    ModelResponse("", "none", "none", FailureConfidence, FALSE,
                  "All providers failed or unavailable")

\* Mutant: the loop never returns from inside.
NeverReturnsEarly(resp) == FALSE

\* Mutant: the loop returns the first response it gets, failed or not.
ReturnsFirstResponse(resp) == TRUE

\* if response.success: return response
ReturnsOnSuccess(resp) == resp.success

\* Mutant: the adapter's call stands outside any try block.
AdapterFaultEscapes == FALSE

\* except Exception as e: ... continue
CatchesAdapterFault == TRUE

\* A call has ended and its caller has not run yet.  The caller of a
\* coroutine that returns or raises runs on in the same stretch: no other
\* coroutine runs in between.
ResultPending ==
    \/ gen.pc \in {"done", "raised"}
    \/ hc.pc \in {"done", "raised"}
    \/ conn.pc = "done"
    \/ sd.pc \in {"done", "raised"}
    \/ call.pc \in {"done", "raised"}

\* generate_response, health_check and check_api_connectivity write nothing
\* but their own locals: they read the registry, the available flags and the
\* sessions, which only initialise and shutdown write.  Two of them
\* suspended at once therefore see what they would see one after the other,
\* and the model runs at most one of them at a time, beside a shutdown that
\* may be suspended at any of its awaits.
ReaderSuspended ==
    gen.pc = "await" \/ hc.pc = "await" \/ conn.pc = "await" \/ call.pc = "await"

\* One of the three may be called: the pipeline has been initialised (the
\* callers of main.py get the pipeline after initialise_components).
MayStart == init.pc = "done" /\ ~ResultPending /\ ~ReaderSuspended

(***************************************************************************)
(* MultiModelPipeline.initialise, with ModelProvider.initialise inlined.   *)
(***************************************************************************)
\* Mutant: initialise reports success whatever it counted.
InitialiseResultAlways(count) == TRUE

\* return available_count > 0
InitialiseResult(count) == count > 0

\* Mutant: the loop gives up at the first adapter that fails to initialise.
InitialiseStopsAtFailure(flag) == flag

\* The loop over the registry has no break and no return: whatever an
\* adapter's initialise came back with, the next adapter is initialised.
InitialiseGoesOn(flag) == TRUE

\* The loop "for name, provider in self.providers.items()" from its i-th
\* entry to the next suspension (a probe's post) or to the return.  inv is
\* the record of the adapters whose initialise has been invoked.
\* ModelProvider.initialise ends in r, what its test_connection ended in: a
\* flag, which it stores in available and returns, or a fault, which its
\* except branch turns into False.
RECURSIVE InitialiseFrom(_, _, _, _, _, _)
RECURSIVE AdapterInitialised(_, _, _, _, _, _, _)
InitialiseFrom(i, provs, sess, av, count, inv) ==
    IF i > Len(provs)
    THEN [pc |-> "done", idx |-> i, available_count |-> count,
          result |-> InitialiseResult(count), invoked |-> inv,
          session |-> sess, available |-> av]
    ELSE LET p == provs[i]
             opened == [sess EXCEPT ![p] = "open"]
             r == TestConnectionPre(p, provider_configs[p], "open")
         IN  IF r.kind = "call"
             THEN [pc |-> "await", idx |-> i, available_count |-> count,
                   result |-> FALSE, invoked |-> Append(inv, p),
                   session |-> opened, available |-> av]
             ELSE AdapterInitialised(i, provs, opened, av, count,
                                     Append(inv, p), r)

AdapterInitialised(i, provs, sess, av, count, inv, r) ==
    LET p == provs[i]
        flag == r.kind = "return" /\ r.flag
        av2 == IF r.kind = "return" THEN [av EXCEPT ![p] = r.flag] ELSE av
        count2 == IF flag THEN count + 1 ELSE count
    IN  IF InitialiseGoesOn(flag)
        THEN InitialiseFrom(i + 1, provs, sess, av2, count2, inv)
        ELSE [pc |-> "done", idx |-> i + 1, available_count |-> count2,
              result |-> InitialiseResult(count2), invoked |-> inv,
              session |-> sess, available |-> av2]

\* Mutant: an entry without a usable api_key is not registered.
ConfiguredWithKey(p) ==
    p \in DOMAIN provider_configs /\ Truthy(provider_configs[p], "api_key")

\* if "groq" in provider_configs: self.providers["groq"] = GroqProvider(...),
\* and so for the other three names: the entry is not looked into.
Configured(p) == p \in DOMAIN provider_configs

InitRecord(r) ==
    [pc |-> r.pc, idx |-> r.idx, available_count |-> r.available_count,
     result |-> r.result, invoked |-> r.invoked]

\* initialise is called: the registry is filled from the configuration, then
\* the adapters are initialised one after the other.
PipelineInitialise ==
    /\ init.pc = "new"
    /\ ~ResultPending
    /\ LET provs == SelectSeq(ProviderOrder, Configured)
           r == InitialiseFrom(1, provs, session, available, 0, <<>>)
       IN  /\ providers' = provs
           /\ session' = r.session
           /\ available' = r.available
           /\ init' = InitRecord(r)
    /\ UNCHANGED <<agent, provider_configs, gen, hc, conn, sd, call>>

\* The probe of the adapter being initialised comes back.
InitialiseProbeReturns(outcome) ==
    /\ init.pc = "await"
    /\ ~ResultPending
    /\ LET r == AdapterInitialised(init.idx, providers, session, available,
                                   init.available_count, init.invoked,
                                   TestConnectionEnds(outcome))
       IN  /\ session' = r.session
           /\ available' = r.available
           /\ init' = InitRecord(r)
    /\ UNCHANGED <<agent, provider_configs, providers, gen, hc, conn, sd, call>>

(***************************************************************************)
(* MultiModelPipeline.generate_response.                                   *)
(***************************************************************************)
HistEntry(p, kind, resp) == [provider |-> p, kind |-> kind, resp |-> resp]

GenRecord(pc, task_type, idx, hist, result) ==
    [pc |-> pc, task_type |-> task_type, idx |-> idx, hist |-> hist,
     result |-> result]

\* The loop "for provider_name in routing_order" from its i-th entry to the
\* next suspension (an adapter's post), to the return, or to a fault that
\* leaves the coroutine.  hist is the record of the adapters invoked so far.
RECURSIVE DispatchFrom(_, _, _)
RECURSIVE AdapterReturned(_, _, _, _)
DispatchFrom(i, task_type, hist) ==
    LET order == routing_order(task_type) IN
    IF i > Len(order)
    THEN GenRecord("done", task_type, i, hist, ExhaustedResponse)
    ELSE LET p == order[i] IN
         IF ~Eligible(p)
         THEN DispatchFrom(i + 1, task_type, hist)
         ELSE LET r == AdapterPre(p, provider_configs[p], task_type, session[p]) IN
              CASE r.kind = "call" ->
                      GenRecord("await", task_type, i, hist, NoResponse)
                [] r.kind = "raise" ->
                      IF CatchesAdapterFault
                      THEN DispatchFrom(i + 1, task_type,
                                        Append(hist, HistEntry(p, "raise", NoResponse)))
                      ELSE GenRecord("raised", task_type, i,
                                     Append(hist, HistEntry(p, "raise", NoResponse)),
                                     NoResponse)
                [] r.kind = "return" ->
                      AdapterReturned(i, task_type, hist, r.resp)

\* The adapter at entry i has returned resp.
AdapterReturned(i, task_type, hist, resp) ==
    LET p == routing_order(task_type)[i]
        h == Append(hist, HistEntry(p, "return", resp))
    IN  IF ReturnsOnSuccess(resp)
        THEN GenRecord("done", task_type, i, h, resp)
        ELSE DispatchFrom(i + 1, task_type, h)

\* generate_response(prompt, task_type) is called on the initialised pipeline.
GenerateResponse(task_type) ==
    /\ gen.pc = "idle"
    /\ MayStart
    /\ gen' = DispatchFrom(1, task_type, <<>>)
    /\ UNCHANGED <<agent, provider_configs, providers, session, available, init,
                   hc, conn, sd, call>>

\* The backend call of the adapter being awaited comes back.
GenerateBackendReturns(outcome) ==
    /\ gen.pc = "await"
    /\ ~ResultPending
    /\ LET p == routing_order(gen.task_type)[gen.idx]
           resp == AdapterPost(p, provider_configs[p], gen.task_type, outcome)
       IN  gen' = AdapterReturned(gen.idx, gen.task_type, gen.hist, resp)
    /\ UNCHANGED <<agent, provider_configs, providers, session, available, init,
                   hc, conn, sd, call>>

(***************************************************************************)
(* MultiModelPipeline.health_check.                                        *)
(***************************************************************************)
\* The state of a health check: where the call is, the three entries of
\* health_status, and the adapters whose probe has logged "connection test
\* failed" from its except branch during this call.
HealthRecord(pc, idx, total, count, detail, faulted) ==
    [pc |-> pc, idx |-> idx, total_providers |-> total,
     available_providers |-> count, providers |-> detail, faulted |-> faulted]

HealthIdle == HealthRecord("idle", 0, 0, 0, <<>>, {})

\* Mutant: a healthy adapter is counted twice.
HealthEntryCountingTwice(h, p, is_healthy) ==
    HealthRecord(h.pc, h.idx, h.total_providers,
                 IF is_healthy THEN h.available_providers + 2
                 ELSE h.available_providers,
                 Append(h.providers,
                        [name |-> p, available |-> available[p],
                         healthy |-> is_healthy]),
                 h.faulted)

\* health_status["providers"][name] = {...}; if is_healthy: ... += 1
HealthEntry(h, p, is_healthy) ==
    HealthRecord(h.pc, h.idx, h.total_providers,
                 IF is_healthy THEN h.available_providers + 1
                 ELSE h.available_providers,
                 Append(h.providers,
                        [name |-> p, available |-> available[p],
                         healthy |-> is_healthy]),
                 h.faulted)

\* Mutant: the health check writes the live flag back.
AvailableRevisedByHealthProbe(p, is_healthy) ==
    [available EXCEPT ![p] = is_healthy]

\* What the health check leaves in the available flags once the probe of
\* adapter p has come back with is_healthy: the loop body writes
\* health_status only.
AvailableAfterHealthProbe(p, is_healthy) == available

\* The loop "for name, provider in self.providers.items()" from its i-th
\* entry to the next suspension (a probe's post) or to the return.
RECURSIVE HealthFrom(_, _)
HealthFrom(i, h) ==
    IF i > Len(providers)
    THEN [h EXCEPT !.pc = "done", !.idx = i]
    ELSE LET p == providers[i]
             r == IF available[p]
                  THEN TestConnectionPre(p, provider_configs[p], session[p])
                  ELSE ProbeReturned(FALSE)
         IN  IF r.kind = "return"
             THEN HealthFrom(i + 1, HealthEntry(h, p, r.flag))
             ELSE [h EXCEPT !.pc = "await", !.idx = i]

HealthCheck ==
    /\ hc.pc = "idle"
    /\ MayStart
    /\ hc' = HealthFrom(1, HealthRecord("idle", 0, Len(providers), 0, <<>>, {}))
    /\ UNCHANGED <<agent, provider_configs, providers, session, available, init,
                   gen, conn, sd, call>>

\* The probe of the adapter being checked comes back.  The loop body has no
\* try: a fault that leaves test_connection leaves health_check.
HealthProbeReturns(outcome) ==
    /\ hc.pc = "await"
    /\ ~ResultPending
    /\ LET p == providers[hc.idx]
           r == TestConnectionEnds(outcome)
       IN  IF r.kind = "raise"
           THEN /\ hc' = [hc EXCEPT !.pc = "raised"]
                /\ UNCHANGED available
           ELSE /\ hc' = HealthFrom(hc.idx + 1,
                                     HealthEntry(IF outcome = "net_error"
                                                 THEN [hc EXCEPT !.faulted = @ \cup {p}]
                                                 ELSE hc,
                                                 p, r.flag))
                /\ available' = AvailableAfterHealthProbe(p, r.flag)
    /\ UNCHANGED <<agent, provider_configs, providers, session, init, gen, conn, sd, call>>

(***************************************************************************)
(* MultiModelPipeline.check_api_connectivity.                              *)
(***************************************************************************)
ConnRecord(pc, idx, status) == [pc |-> pc, idx |-> idx, status |-> status]

ConnIdle == ConnRecord("idle", 0, <<>>)

\* Mutant: an adapter that is not connected gets no entry.
ConnEntryOnlyConnected(c, p, connected) ==
    IF connected
    THEN ConnRecord(c.pc, c.idx,
                    Append(c.status,
                           [name |-> p, connected |-> connected, error |-> None]))
    ELSE c

\* connectivity_status[name] = {"connected": connected, "error": None}
ConnEntry(c, p, connected) ==
    ConnRecord(c.pc, c.idx,
               Append(c.status,
                      [name |-> p, connected |-> connected, error |-> None]))

\* except Exception as e: connectivity_status[name] = {"connected": False,
\* "error": str(e)}
ConnFault(c, p) ==
    ConnRecord(c.pc, c.idx,
               Append(c.status,
                      [name |-> p, connected |-> FALSE, error |-> "<str(e)>"]))

RECURSIVE ConnectivityFrom(_, _)
ConnectivityFrom(i, c) ==
    IF i > Len(providers)
    THEN [c EXCEPT !.pc = "done", !.idx = i]
    ELSE LET p == providers[i]
             r == TestConnectionPre(p, provider_configs[p], session[p])
         IN  IF r.kind = "return"
             THEN ConnectivityFrom(i + 1, ConnEntry(c, p, r.flag))
             ELSE [c EXCEPT !.pc = "await", !.idx = i]

CheckApiConnectivity ==
    /\ conn.pc = "idle"
    /\ MayStart
    /\ conn' = ConnectivityFrom(1, ConnIdle)
    /\ UNCHANGED <<agent, provider_configs, providers, session, available, init,
                   gen, hc, sd, call>>

ConnectivityProbeReturns(outcome) ==
    /\ conn.pc = "await"
    /\ ~ResultPending
    /\ LET p == providers[conn.idx]
           r == TestConnectionEnds(outcome)
       IN  conn' = ConnectivityFrom(conn.idx + 1,
                                    IF r.kind = "raise" THEN ConnFault(conn, p)
                                    ELSE ConnEntry(conn, p, r.flag))
    /\ UNCHANGED <<agent, provider_configs, providers, session, available, init,
                   gen, hc, sd, call>>

(***************************************************************************)
(* MultiModelPipeline.shutdown, with ModelProvider.cleanup inlined.        *)
(***************************************************************************)
\* What an awaited session.close() of an open session can come back with.
CloseOutcomes == {"closed", "error"}

\* The state of a shutdown: where the call is, the adapters whose cleanup
\* this call has invoked, how often each adapter's session has been
\* released, and whether some call has returned.
ShutdownRecord(pc, idx, cleaned, released, completed) ==
    [pc |-> pc, idx |-> idx, cleaned |-> cleaned, released |-> released,
     completed |-> completed]

ShutdownIdle ==
    ShutdownRecord("idle", 0, <<>>, [p \in ProviderNames |-> 0], FALSE)

\* The loop "for provider in self.providers.values()" from its i-th entry
\* to the next suspension (the awaited close of an open session) or to the
\* return.  cleanup skips a session that is None; the close of a session
\* that is closed already releases nothing and comes back at once; neither
\* cleanup nor shutdown writes the available flag.
RECURSIVE ShutdownFrom(_, _, _)
ShutdownFrom(i, sess, s) ==
    IF i > Len(providers)
    THEN [sd |-> [s EXCEPT !.pc = "done", !.idx = i, !.completed = TRUE],
          session |-> sess]
    ELSE LET p == providers[i]
             t == [s EXCEPT !.cleaned = Append(@, p)]
         IN  IF sess[p] = "open"
             THEN [sd |-> [t EXCEPT !.pc = "await", !.idx = i,
                                    !.released[p] = @ + 1],
                   session |-> [sess EXCEPT ![p] = "closed"]]
             ELSE ShutdownFrom(i + 1, sess, t)

\* Mutant: shutdown empties the registry.
RegistryClearedByShutdown == <<>>

\* What a stretch of shutdown leaves in self.providers: it iterates over
\* self.providers.values() and assigns nothing to the dictionary.
RegistryAfterShutdown == providers

Shutdown ==
    /\ init.pc # "new"
    /\ sd.pc = "idle"
    /\ call.pc = "idle"
    /\ ~ResultPending
    /\ LET r == ShutdownFrom(1, session, [sd EXCEPT !.cleaned = <<>>]) IN
       /\ sd' = r.sd
       /\ session' = r.session
    /\ providers' = RegistryAfterShutdown
    /\ UNCHANGED <<agent, provider_configs, available, init, gen, hc, conn, call>>

\* The close the shutdown is suspended at comes back.  Neither cleanup nor
\* the loop has a try: a close that raises ends the shutdown there.
ShutdownCloseReturns(outcome) ==
    /\ sd.pc = "await"
    /\ ~ResultPending
    /\ IF outcome = "error"
       THEN /\ sd' = [sd EXCEPT !.pc = "raised"]
            /\ UNCHANGED session
       ELSE LET r == ShutdownFrom(sd.idx + 1, session, sd) IN
            /\ sd' = r.sd
            /\ session' = r.session
    /\ providers' = RegistryAfterShutdown
    /\ UNCHANGED <<agent, provider_configs, available, init, gen, hc, conn, call>>

(***************************************************************************)
(* An adapter's generate_response called on the adapter itself.  The       *)
(* adapter reads its session once, when it posts; what a close of the      *)
(* session does to a call in flight is one of NetOutcomes.  The call and a *)
(* shutdown are therefore not run side by side.                            *)
(***************************************************************************)
\* posts is the number of session.post requests the call has issued.
CallRecord(pc, p, task_type, resp, posts) ==
    [pc |-> pc, provider |-> p, task_type |-> task_type, resp |-> resp,
     posts |-> posts]

CallIdle == CallRecord("idle", None, None, NoResponse, 0)

AdapterGenerate(p, task_type) ==
    /\ Registered(p)
    /\ call.pc = "idle"
    /\ sd.pc = "idle"
    /\ ~ResultPending
    /\ ~ReaderSuspended
    /\ LET r == AdapterPre(p, provider_configs[p], task_type, session[p]) IN
       call' = CallRecord(CASE r.kind = "call" -> "await"
                            [] r.kind = "raise" -> "raised"
                            [] r.kind = "return" -> "done",
                          p, task_type, r.resp,
                          IF r.kind = "call" THEN 1 ELSE 0)
    /\ UNCHANGED <<agent, provider_configs, providers, session, available, init,
                   gen, hc, conn, sd>>

AdapterBackendReturns(outcome) ==
    /\ call.pc = "await"
    /\ ~ResultPending
    /\ call' = [call EXCEPT
                  !.pc = "done",
                  !.resp = AdapterPost(call.provider, provider_configs[call.provider],
                                       call.task_type, outcome)]
    /\ UNCHANGED <<agent, provider_configs, providers, session, available, init,
                   gen, hc, conn, sd>>

(***************************************************************************)
(* The callers: the caller of a call that has ended takes what it ended    *)
(* with.                                                                   *)
(***************************************************************************)
GenIdle == GenRecord("idle", None, 0, <<>>, NoResponse)

GenerateResultTaken ==
    /\ gen.pc \in {"done", "raised"}
    /\ gen' = GenIdle
    /\ UNCHANGED <<agent, provider_configs, providers, session, available, init,
                   hc, conn, sd, call>>

HealthResultTaken ==
    /\ hc.pc \in {"done", "raised"}
    /\ hc' = HealthIdle
    /\ UNCHANGED <<agent, provider_configs, providers, session, available, init,
                   gen, conn, sd, call>>

ConnectivityResultTaken ==
    /\ conn.pc = "done"
    /\ conn' = ConnIdle
    /\ UNCHANGED <<agent, provider_configs, providers, session, available, init,
                   gen, hc, sd, call>>

ShutdownResultTaken ==
    /\ sd.pc \in {"done", "raised"}
    /\ sd' = [sd EXCEPT !.pc = "idle", !.idx = 0]
    /\ UNCHANGED <<agent, provider_configs, providers, session, available, init,
                   gen, hc, conn, call>>

AdapterResultTaken ==
    /\ call.pc \in {"done", "raised"}
    /\ call' = CallIdle
    /\ UNCHANGED <<agent, provider_configs, providers, session, available, init,
                   gen, hc, conn, sd>>

(***************************************************************************)
(* AgentZero (main.py): __init__ loads the configuration, run installs the *)
(* signal handler, calls initialise_components, marks the agent running,   *)
(* runs the task loop and, in its finally, shutdown.  SecurityManager,      *)
(* SystemIntegration, TaskManager and the interfaces are not part of the   *)
(* sources: whether their initialise raises is an input.                   *)
(***************************************************************************)
\* The two callers of AgentZero.shutdown: run's finally and the task the
\* signal handler creates.
ShutdownCallers == {"fin", "sig"}

\* The agent's state.  pc is where __init__ and run are; running is
\* self.running; loop is where process_task_queue is; path is the way run
\* left its try block and result the value it returned; shutdown holds, for
\* the shutdown of run's finally ("fin") and for the shutdown task of the
\* signal handler ("sig"), where that execution is, and released whether it
\* has called the pipeline's shutdown; signals, shutdowns and
\* pipeline_shutdowns count the signals handled and the calls of
\* AgentZero.shutdown and of MultiModelPipeline.shutdown; signal_in_loop says
\* that a signal came while run was in the task loop; health is where
\* health_check is, components the value status.get("status") of each
\* component's report, overall_status what health_check returned, and
\* checked whether the pipeline reported every adapter available and
\* healthy and whether every adapter's connectivity probe said connected.
AgentRecord(pc, env, config_file) ==
    [pc |-> pc, env |-> env, config_file |-> config_file,
     running |-> FALSE, loop |-> "none", path |-> None, result |-> None,
     shutdown |-> [who \in ShutdownCallers |-> "idle"],
     released |-> [who \in ShutdownCallers |-> FALSE],
     signals |-> 0, signal_in_loop |-> FALSE,
     shutdowns |-> 0, pipeline_shutdowns |-> 0,
     health |-> "idle", components |-> None, overall_status |-> None,
     checked |-> [pipeline |-> FALSE, api |-> FALSE]]

\* The pipeline used without AgentZero, on a configuration of its caller.
NoAgent == AgentRecord("none", {}, "absent")

\* AgentZero.__init__: self.config = self.config_manager.load_config()
AgentLoadConfig ==
    /\ agent.pc = "new"
    /\ IF validate_configuration(agent.env)
       THEN /\ provider_configs' = load_config(agent.env, agent.config_file)
            /\ agent' = [agent EXCEPT !.pc = "configured"]
       ELSE /\ agent' = [agent EXCEPT !.pc = "crashed"]
            /\ UNCHANGED provider_configs
    /\ UNCHANGED <<providers, session, available, init, gen, hc, conn, sd, call>>

\* run, first lines: signal.signal installs signal_handler for SIGINT and
\* SIGTERM.  signal.signal raises outside the main thread: run's except
\* takes it.
AgentRunStarts(ok) ==
    /\ agent.pc = "configured"
    /\ agent' = IF ok
                THEN [agent EXCEPT !.pc = "started"]
                ELSE [agent EXCEPT !.pc = "stopped", !.path = "runtime_error"]
    /\ UNCHANGED <<provider_configs, providers, session, available, init,
                   gen, hc, conn, sd, call>>

\* initialise_components up to the pipeline: the security manager is
\* initialised; a fault ends initialise_components with False and run
\* returns False without marking the agent running.
AgentSecurityInitialised(ok) ==
    /\ agent.pc = "started"
    /\ agent' = IF ok
                THEN [agent EXCEPT !.pc = "secured"]
                ELSE [agent EXCEPT !.pc = "stopped", !.path = "init_failed"]
    /\ UNCHANGED <<provider_configs, providers, session, available, init,
                   gen, hc, conn, sd, call>>

\* await self.model_pipeline.initialise(): the value is dropped, and
\* initialise_components goes on whatever it was.
PipelineResultAccepted(result) == TRUE

\* initialise_components reaches the pipeline: MultiModelPipeline(
\* self.config.models, self.logger) and its initialise.
AgentInitialisePipeline ==
    /\ agent.pc = "secured"
    /\ PipelineInitialise

\* initialise_components from the pipeline's return on: the remaining
\* components are initialised and it returns True, or one of them raises and
\* it returns False; run marks the agent running on True and, its first
\* health check over, enters process_task_queue.
AgentComponentsInitialised(ok) ==
    /\ agent.pc = "secured"
    /\ init.pc = "done"
    /\ agent' = IF PipelineResultAccepted(init.result) /\ ok
                THEN [agent EXCEPT !.pc = "running", !.running = TRUE,
                                   !.loop = "top"]
                ELSE [agent EXCEPT !.pc = "stopped", !.path = "init_failed"]
    /\ UNCHANGED <<provider_configs, providers, session, available, init,
                   gen, hc, conn, sd, call>>

(***************************************************************************)
(* AgentZero.process_task_queue.  TaskManager is not part of the sources:  *)
(* whether process_pending_tasks raises is an input, and so is the minute  *)
(* of the clock.  perform_maintenance's health check is modelled by the    *)
(* health check below; it writes nothing the loop or a shutdown reads.     *)
(***************************************************************************)
\* while self.running:
LoopContinues(running) == running

\* Mutant: a fault of the loop body leaves the loop and run's try block.
LoopLeftOnFault(a) ==
    [a EXCEPT !.pc = "stopped", !.loop = "exited", !.path = "runtime_error"]

\* except Exception as e: self.logger.error(...); await asyncio.sleep(30)
LoopAfterFault(a) == [a EXCEPT !.loop = "errsleep"]

\* perform_maintenance: its body is in a try whose except logs the fault.
MaintenanceEnds(fault) == "return"

\* The test of "while self.running": the body is entered, or
\* process_task_queue returns and run leaves its try block normally.
LoopTest ==
    /\ agent.pc = "running"
    /\ agent.loop = "top"
    /\ agent' = IF LoopContinues(agent.running)
                THEN [agent EXCEPT !.loop = "tasks"]
                ELSE [agent EXCEPT !.pc = "stopped", !.loop = "exited",
                                   !.path = "loop_exit"]
    /\ UNCHANGED <<provider_configs, providers, session, available, init,
                   gen, hc, conn, sd, call>>

\* What the loop does once its body has ended in the way given.
AfterLoopBody(ended) ==
    IF ended = "raise"
    THEN LoopAfterFault(agent)
    ELSE [agent EXCEPT !.loop = ended]

\* await self.task_manager.process_pending_tasks() comes back; then
\* "if datetime.now().minute % 30 == 0" chooses the maintenance.
LoopTasksReturn(outcome, maintenance_due) ==
    /\ agent.pc = "running"
    /\ agent.loop = "tasks"
    /\ agent' = AfterLoopBody(IF outcome = "raise" THEN "raise"
                              ELSE IF maintenance_due THEN "maintenance"
                              ELSE "sleep")
    /\ UNCHANGED <<provider_configs, providers, session, available, init,
                   gen, hc, conn, sd, call>>

\* await self.perform_maintenance() comes back, a fault inside it or not.
LoopMaintenanceReturns(fault) ==
    /\ agent.pc = "running"
    /\ agent.loop = "maintenance"
    /\ agent' = AfterLoopBody(IF MaintenanceEnds(fault) = "raise" THEN "raise"
                              ELSE "sleep")
    /\ UNCHANGED <<provider_configs, providers, session, available, init,
                   gen, hc, conn, sd, call>>

\* The sleep that ends an iteration comes back.
LoopSleepReturns ==
    /\ agent.pc = "running"
    /\ agent.loop \in {"sleep", "errsleep"}
    /\ agent' = [agent EXCEPT !.loop = "top"]
    /\ UNCHANGED <<provider_configs, providers, session, available, init,
                   gen, hc, conn, sd, call>>

(***************************************************************************)
(* AgentZero.signal_handler and AgentZero.shutdown.  The components before *)
(* the pipeline are not part of the sources: whether one of their          *)
(* shutdowns raises is an input.  The pipeline's shutdown has one state in *)
(* the model: a second call of it starts when the first has come back.     *)
(***************************************************************************)
\* signal_handler: asyncio.create_task(self.shutdown()), from the moment run
\* has installed the handler to the moment run returns.
AgentSignal ==
    /\ agent.pc \in {"started", "secured", "running", "stopped"}
    /\ agent.signals < MaxSignals
    /\ agent.shutdown["sig"] \in {"idle", "done"}
    /\ agent' = [agent EXCEPT !.signals = @ + 1,
                              !.shutdown["sig"] = "scheduled",
                              !.released["sig"] = FALSE,
                              !.signal_in_loop = @ \/ agent.pc = "running"]
    /\ UNCHANGED <<provider_configs, providers, session, available, init,
                   gen, hc, conn, sd, call>>

\* A call of shutdown may begin: run is at its "finally: await
\* self.shutdown()", or the task the signal handler created gets to run.
ShutdownDue(who) ==
    IF who = "fin"
    THEN agent.pc = "stopped" /\ agent.shutdown["fin"] = "idle"
    ELSE agent.pc # "returned" /\ agent.shutdown["sig"] = "scheduled"

\* shutdown to its first await: self.running = False, then the shutdown of
\* the task manager.
AgentShutdownStarts(who) ==
    /\ ShutdownDue(who)
    /\ agent' = [agent EXCEPT !.running = FALSE,
                              !.shutdowns = @ + 1,
                              !.shutdown[who] = "components"]
    /\ UNCHANGED <<provider_configs, providers, session, available, init,
                   gen, hc, conn, sd, call>>

\* The shutdowns of the task manager, the interfaces and the system
\* integration have come back, all of them or one with a fault.  They are
\* in one try with the pipeline's: a fault takes shutdown to its except.
\* Otherwise "if self.model_pipeline: await self.model_pipeline.shutdown()"
\* runs to the first await of that call.
AgentShutdownComponentsReturn(who, ok) ==
    /\ agent.pc # "returned"
    /\ agent.shutdown[who] = "components"
    /\ IF ok /\ init.pc # "new"
       THEN /\ sd.pc = "idle"
            /\ ~ResultPending
            /\ LET r == ShutdownFrom(1, session, [sd EXCEPT !.cleaned = <<>>]) IN
               /\ sd' = r.sd
               /\ session' = r.session
            /\ providers' = RegistryAfterShutdown
            /\ agent' = [agent EXCEPT !.shutdown[who] = "pipeline",
                                      !.released[who] = TRUE,
                                      !.pipeline_shutdowns = @ + 1]
       ELSE /\ agent' = [agent EXCEPT !.shutdown[who] = "done"]
            /\ UNCHANGED <<providers, session, sd>>
    /\ UNCHANGED <<provider_configs, available, init, gen, hc, conn, call>>

\* The pipeline's shutdown has come back or raised (the except of
\* AgentZero.shutdown logs it): this call of shutdown is over.
AgentPipelineShutdownReturns(who) ==
    /\ agent.pc # "returned"
    /\ agent.shutdown[who] = "pipeline"
    /\ sd.pc \in {"done", "raised"}
    /\ sd' = [sd EXCEPT !.pc = "idle", !.idx = 0]
    /\ agent' = [agent EXCEPT !.shutdown[who] = "done"]
    /\ UNCHANGED <<provider_configs, providers, session, available, init,
                   gen, hc, conn, call>>

\* Mutant: run returns True whatever happened.
RunReturnsTrue(path) == TRUE

\* return False (initialise_components failed), return False (except
\* Exception), return True after the finally.
RunReturns(path) == path = "loop_exit"

\* The shutdown of run's finally is over: run returns.
AgentRunReturns ==
    /\ agent.pc = "stopped"
    /\ agent.shutdown["fin"] = "done"
    /\ agent' = [agent EXCEPT !.pc = "returned",
                              !.result = RunReturns(agent.path)]
    /\ UNCHANGED <<provider_configs, providers, session, available, init,
                   gen, hc, conn, sd, call>>

(***************************************************************************)
(* AgentZero.health_check, called by run and by perform_maintenance.  The  *)
(* health checks of the system integration, the security manager and the   *)
(* task manager are not part of the sources: the status they report, or    *)
(* that one of them raises, is an input.                                   *)
(***************************************************************************)
OtherComponents == {"system_integration", "security_manager", "task_manager"}

ComponentStatuses == {"healthy", "degraded"}

\* status.get("status") of the pipeline's report: the dictionary health_check
\* builds has the keys total_providers, available_providers and providers.
PipelineStatus(h) == None

\* "Determine overall status", from the value status.get("status") of every
\* component and the report of check_api_connectivity.
OverallStatus(components, api_status) ==
    LET component_failures ==
            {comp \in DOMAIN components : components[comp] # "healthy"}
        api_failures ==
            {i \in 1..Len(api_status) : ~api_status[i].connected}
        after_components ==
            IF component_failures # {} THEN "degraded" ELSE "healthy"
    IN  IF api_failures # {} /\ after_components = "healthy"
        THEN "limited"
        ELSE after_components

\* health_check to the first await of the pipeline's health check.
AgentHealthCheck ==
    /\ agent.pc = "running"
    /\ agent.health = "idle"
    /\ HealthCheck

\* The pipeline's report is in; the other components report, then
\* get_system_resources, then check_api_connectivity to its first await.  A
\* fault of one of them takes health_check to its except.
AgentHealthComponents(statuses, ok) ==
    /\ agent.pc = "running"
    /\ agent.health = "idle"
    /\ hc.pc \in {"done", "raised"}
    /\ hc' = HealthIdle
    /\ IF ok /\ hc.pc = "done"
       THEN /\ conn' = ConnectivityFrom(1, ConnIdle)
            /\ agent' = [agent EXCEPT
                  !.health = "connectivity",
                  !.components =
                      [comp \in OtherComponents \cup {"model_pipeline"} |->
                          IF comp = "model_pipeline" THEN PipelineStatus(hc)
                          ELSE statuses[comp]],
                  !.checked.pipeline =
                      /\ hc.providers # <<>>
                      /\ \A i \in 1..Len(hc.providers) :
                            hc.providers[i].available /\ hc.providers[i].healthy]
       ELSE /\ agent' = [agent EXCEPT !.health = "done",
                                      !.overall_status = "error"]
            /\ UNCHANGED conn
    /\ UNCHANGED <<provider_configs, providers, session, available, init,
                   gen, sd, call>>

\* check_api_connectivity has come back: the overall status is determined
\* and health_check returns.
AgentHealthConcludes ==
    /\ agent.pc = "running"
    /\ agent.health = "connectivity"
    /\ conn.pc = "done"
    /\ conn' = ConnIdle
    /\ agent' = [agent EXCEPT
          !.health = "done",
          !.overall_status = OverallStatus(agent.components, conn.status),
          !.checked.api = \A i \in 1..Len(conn.status) : conn.status[i].connected]
    /\ UNCHANGED <<provider_configs, providers, session, available, init,
                   gen, hc, sd, call>>

(***************************************************************************)
(* The specification.                                                      *)
(***************************************************************************)
Irregular(kind) == {p \in DOMAIN kind : kind[p] # "resolved"}

Init ==
    /\ agent = NoAgent
    /\ \E S \in SUBSET ProviderNames :
         \E kind \in [S -> ConfigKinds] :
            /\ Cardinality(Irregular(kind)) <= MaxIrregular
            /\ provider_configs = [p \in S |-> ConfigOfKind(p, kind[p])]
    /\ providers = <<>>
    /\ session = [p \in ProviderNames |-> "none"]
    /\ available = [p \in ProviderNames |-> FALSE]
    /\ init = [pc |-> "new", idx |-> 0, available_count |-> 0, result |-> FALSE,
               invoked |-> <<>>]
    /\ gen = GenIdle
    /\ hc = HealthIdle
    /\ conn = ConnIdle
    /\ sd = ShutdownIdle
    /\ call = CallIdle

Next ==
    \/ PipelineInitialise
    \/ \E outcome \in NetOutcomes : InitialiseProbeReturns(outcome)
    \/ \E task_type \in Tasks : GenerateResponse(task_type)
    \/ \E outcome \in NetOutcomes : GenerateBackendReturns(outcome)
    \/ HealthCheck
    \/ \E outcome \in NetOutcomes : HealthProbeReturns(outcome)
    \/ CheckApiConnectivity
    \/ \E outcome \in NetOutcomes : ConnectivityProbeReturns(outcome)
    \/ Shutdown
    \/ \E outcome \in CloseOutcomes : ShutdownCloseReturns(outcome)
    \/ GenerateResultTaken
    \/ HealthResultTaken
    \/ ConnectivityResultTaken
    \/ ShutdownResultTaken

\* The pipeline and its callers.
Spec == Init /\ [][Next]_vars

NextAdapter ==
    \/ PipelineInitialise
    \/ \E outcome \in NetOutcomes : InitialiseProbeReturns(outcome)
    \/ \E p \in ProviderNames, task_type \in Tasks : AdapterGenerate(p, task_type)
    \/ \E outcome \in NetOutcomes : AdapterBackendReturns(outcome)
    \/ AdapterResultTaken
    \/ Shutdown
    \/ \E outcome \in CloseOutcomes : ShutdownCloseReturns(outcome)
    \/ ShutdownResultTaken

\* The adapters, created and released by the pipeline and called one by one.
AdapterSpec == Init /\ [][NextAdapter]_vars

\* AgentZero is constructed in some environment, beside some config file.
InitAgent ==
    /\ \E env \in SUBSET EnvVars, config_file \in ConfigFiles :
          agent = AgentRecord("new", env, config_file)
    /\ provider_configs = <<>>
    /\ providers = <<>>
    /\ session = [p \in ProviderNames |-> "none"]
    /\ available = [p \in ProviderNames |-> FALSE]
    /\ init = [pc |-> "new", idx |-> 0, available_count |-> 0, result |-> FALSE,
               invoked |-> <<>>]
    /\ gen = GenIdle
    /\ hc = HealthIdle
    /\ conn = ConnIdle
    /\ sd = ShutdownIdle
    /\ call = CallIdle

NextAgent ==
    \/ AgentLoadConfig
    \/ \E ok \in BOOLEAN : AgentRunStarts(ok)
    \/ \E ok \in BOOLEAN : AgentSecurityInitialised(ok)
    \/ AgentInitialisePipeline
    \/ \E outcome \in NetOutcomes : InitialiseProbeReturns(outcome)
    \/ \E ok \in BOOLEAN : AgentComponentsInitialised(ok)
    \/ AgentShutdownStarts("fin")
    \/ \E ok \in BOOLEAN : AgentShutdownComponentsReturn("fin", ok)
    \/ \E outcome \in CloseOutcomes : ShutdownCloseReturns(outcome)
    \/ AgentPipelineShutdownReturns("fin")
    \/ AgentRunReturns

\* AgentZero's start-up, and run's return when the start-up fails.
StartupSpec == InitAgent /\ [][NextAgent]_vars

TaskLoop ==
    \/ LoopTest
    \/ \E outcome \in {"return", "raise"}, maintenance_due \in BOOLEAN :
          LoopTasksReturn(outcome, maintenance_due)
    \/ \E fault \in BOOLEAN : LoopMaintenanceReturns(fault)
    \/ LoopSleepReturns

NextRun ==
    \/ NextAgent
    \/ TaskLoop
    \/ AgentSignal
    \/ AgentShutdownStarts("sig")
    \/ \E ok \in BOOLEAN : AgentShutdownComponentsReturn("sig", ok)
    \/ AgentPipelineShutdownReturns("sig")

\* AgentZero.run from the construction of the agent to its return, with the
\* task loop, the termination signals and the shutdowns.
RunSpec == InitAgent /\ [][NextRun]_vars

\* The agent is constructed where every provider's key is in the
\* environment.  The task loop reads nothing of the configuration but
\* task_poll_interval.
InitKeyed == InitAgent /\ agent.env = EnvVars

\* AgentZero.run where every call the task loop awaits comes back and the
\* loop, whenever it may go on, does.
FairRunSpec == InitKeyed /\ [][NextRun]_vars /\ WF_vars(TaskLoop)

NextHealth ==
    \/ AgentLoadConfig
    \/ \E ok \in BOOLEAN : AgentRunStarts(ok)
    \/ \E ok \in BOOLEAN : AgentSecurityInitialised(ok)
    \/ AgentInitialisePipeline
    \/ \E outcome \in NetOutcomes : InitialiseProbeReturns(outcome)
    \/ \E ok \in BOOLEAN : AgentComponentsInitialised(ok)
    \/ AgentHealthCheck
    \/ \E outcome \in NetOutcomes : HealthProbeReturns(outcome)
    \/ \E statuses \in [OtherComponents -> ComponentStatuses], ok \in BOOLEAN :
          AgentHealthComponents(statuses, ok)
    \/ \E outcome \in NetOutcomes : ConnectivityProbeReturns(outcome)
    \/ AgentHealthConcludes

\* AgentZero's start-up and the health check run makes once it is running.
HealthSpec == InitAgent /\ [][NextHealth]_vars

(***************************************************************************)
(* Vocabulary of the properties.                                           *)
(***************************************************************************)
IsPrefix(s, t) == Len(s) <= Len(t) /\ s = SubSeq(t, 1, Len(s))

NoDuplicates(s) == \A i, j \in 1..Len(s) : s[i] = s[j] => i = j

\* The routing order of a task type, cut down to the names that are in the
\* registry with their available flag set.
EffectiveOrder(task_type) ==
    SelectSeq(routing_order(task_type),
              LAMBDA p : (\E i \in 1..Len(providers) : providers[i] = p) /\ available[p])

\* The adapters the current generate_response call has invoked, in order:
\* those that have come back, then the one in flight.
Invoked ==
    [i \in 1..Len(gen.hist) |-> gen.hist[i].provider]
    \o (IF gen.pc = "await" THEN <<routing_order(gen.task_type)[gen.idx]>> ELSE <<>>)

\* An invocation that came back with a successful response.
Succeeded(e) == e.kind = "return" /\ e.resp.success

\* The three-part contract of a response: a failure is empty and says why, a
\* success carries no error.
WellFormed(resp) ==
    /\ ~resp.success => resp.content = "" /\ resp.error # None
    /\ resp.success => resp.error = None

\* C1: whatever the task type, the registry and the available flags, the
\* adapters a generate_response call invokes are, in order, a prefix of the
\* routing order filtered to the registered and available names; so an
\* unregistered or unavailable name is never invoked.
C1_InvokedIsPrefixOfEffectiveOrder ==
    gen.pc # "idle" =>
        /\ IsPrefix(Invoked, EffectiveOrder(gen.task_type))
        /\ \A i \in 1..Len(Invoked) :
              /\ \E k \in 1..Len(providers) : providers[k] = Invoked[i]
              /\ available[Invoked[i]]

\* C1 witness: the call has skipped a registered, unavailable groq that heads
\* the order and has invoked openrouter.
C1_Witness ==
    /\ gen.pc = "done"
    /\ gen.task_type = "general"
    /\ \E k \in 1..Len(providers) : providers[k] = "groq"
    /\ ~available["groq"]
    /\ Invoked = <<"openrouter">>

\* C2: once an invoked adapter has returned a successful response, the call
\* is over and that adapter is the last one invoked: nothing after it in the
\* order is invoked.
C2_ShortCircuit ==
    \A i \in 1..Len(gen.hist) :
        Succeeded(gen.hist[i]) => gen.pc = "done" /\ i = Len(Invoked)

\* C2 witness: the first adapter succeeded while another eligible one stood
\* behind it in the order.
C2_Witness ==
    /\ gen.pc = "done"
    /\ Len(gen.hist) = 1
    /\ Succeeded(gen.hist[1])
    /\ Len(EffectiveOrder(gen.task_type)) >= 2

\* C3: a finished call returns success exactly when one of the invoked
\* adapters succeeded; the response is then the one of the first adapter to
\* succeed, which every adapter before it in the effective order was invoked
\* and failed or raised; and a call that returns failure has tried the whole
\* effective order.
C3_FirstSuccessIsReturned ==
    gen.pc = "done" =>
        LET h == gen.hist
            eff == EffectiveOrder(gen.task_type)
        IN  /\ gen.result.success <=> \E i \in 1..Len(h) : Succeeded(h[i])
            /\ gen.result.success =>
                  /\ h[Len(h)].resp = gen.result
                  /\ gen.result.provider = eff[Len(h)]
                  /\ \A i \in 1..(Len(h) - 1) : ~Succeeded(h[i])
                  /\ Invoked = SubSeq(eff, 1, Len(h))
            /\ ~gen.result.success => Invoked = eff

\* C3 witness: the second adapter of the effective order produced the
\* returned response after the first one failed.
C3_Witness ==
    /\ gen.pc = "done"
    /\ gen.result.success
    /\ Len(gen.hist) = 2
    /\ gen.hist[1].kind = "return"
    /\ gen.result.provider = EffectiveOrder(gen.task_type)[2]

\* C4: when every adapter of the effective order has failed or raised, or
\* the effective order is empty, the call returns (it does not raise) a
\* response with success false, provider "none", model "none", content "".
C4_ExhaustionResponse ==
    /\ gen.pc # "raised"
    /\ (gen.pc = "done" /\ \A i \in 1..Len(gen.hist) : ~Succeeded(gen.hist[i])) =>
          /\ gen.result.success = FALSE
          /\ gen.result.provider = "none"
          /\ gen.result.model_used = "none"
          /\ gen.result.content = ""

\* C4 witness: two adapters were invoked, neither succeeded, and the call
\* has returned.
C4_Witness ==
    /\ gen.pc = "done"
    /\ Len(gen.hist) = 2
    /\ \A i \in 1..2 : ~Succeeded(gen.hist[i])

\* C4, second witness case: nothing is eligible and the call has returned.
C4_WitnessEmptyOrder ==
    /\ gen.pc = "done"
    /\ EffectiveOrder(gen.task_type) = <<>>

\* C5 as the claim states it: the exhaustion response's error is exactly
\* "all providers failed or unavailable".
C5_Original ==
    (gen.pc = "done" /\ ~gen.result.success) =>
        gen.result.error = "all providers failed or unavailable"

\* C5 as amended: the exhaustion response's error is exactly
\* "All providers failed or unavailable", with a capital A.
C5_ExhaustionErrorText ==
    (gen.pc = "done" /\ ~gen.result.success) =>
        gen.result.error = "All providers failed or unavailable"

\* C5 witness: a call has ended in exhaustion after an adapter failed.
C5_Witness ==
    /\ gen.pc = "done"
    /\ ~gen.result.success
    /\ Len(gen.hist) = 1
    /\ gen.hist[1].kind = "return"

\* C6: a fault raised by an adapter does not leave generate_response, and
\* after it the dispatch goes on: the next adapter of the effective order is
\* invoked, or, when there is none, the call ends in the exhaustion
\* response.
C6_AdapterFaultContained ==
    /\ gen.pc # "raised"
    /\ \A i \in 1..Len(gen.hist) :
          gen.hist[i].kind = "raise" =>
              IF i < Len(EffectiveOrder(gen.task_type))
              THEN /\ Len(Invoked) >= i + 1
                   /\ Invoked[i + 1] = EffectiveOrder(gen.task_type)[i + 1]
              ELSE gen.pc = "done" /\ gen.result = ExhaustedResponse

\* C6 witness: the first adapter raised and the second one was invoked and
\* answered.
C6_Witness ==
    /\ Len(gen.hist) = 2
    /\ gen.hist[1].kind = "raise"
    /\ gen.hist[2].kind = "return"

\* C7: a call invokes at most as many adapters as its routing order is long
\* and none of them twice; every step of a suspended call either ends it or
\* moves it to a later entry of the routing order, so it ends after at most
\* that many backend answers; and it ends with one response in hand.
C7_SinglePassTermination ==
    /\ [](/\ Len(Invoked) <= Len(routing_order(gen.task_type))
          /\ NoDuplicates(Invoked)
          /\ gen.pc = "await" => gen.idx \in 1..Len(routing_order(gen.task_type))
          /\ gen.pc # "raised"
          /\ gen.pc = "done" => gen.result # NoResponse)
    /\ [][(gen.pc = "await" /\ gen' # gen) =>
             \/ gen'.pc = "done"
             \/ gen'.pc = "await" /\ gen'.idx > gen.idx /\ gen'.task_type = gen.task_type]_vars

\* C7 witness: a call over a routing order of three names has invoked all
\* three and has returned.
C7_Witness ==
    /\ gen.pc = "done"
    /\ Len(gen.hist) = 3
    /\ Len(routing_order(gen.task_type)) = 3

\* C8: every response an adapter hands to generate_response, and the
\* response generate_response returns, is empty with an error when it is a
\* failure and has no error when it is a success.
C8_ResponseWellFormed ==
    /\ \A i \in 1..Len(gen.hist) :
          gen.hist[i].kind = "return" => WellFormed(gen.hist[i].resp)
    /\ gen.pc = "done" => WellFormed(gen.result)

\* C8 witness: a finished call holds a failure of one adapter and the
\* success of another.
C8_Witness ==
    /\ gen.pc = "done"
    /\ \E i, j \in 1..Len(gen.hist) :
          /\ gen.hist[i].kind = "return" /\ ~gen.hist[i].resp.success
          /\ Succeeded(gen.hist[j])

\* C9: the confidence of every response an adapter returns, whatever the
\* adapter, the task type and the outcome, and the confidence of the
\* exhaustion response, lie between 0.0 and 1.0 (0 and 100 hundredths).
C9_ConfidenceInRange ==
    /\ call.pc = "done" => call.resp.confidence \in 0..100
    /\ ExhaustedResponse.confidence \in 0..100

\* C9 witness: an adapter has declined a task type it does not serve.
C9_Witness ==
    /\ call.pc = "done"
    /\ call.provider = "mistral_codestral"
    /\ call.task_type = "general"
    /\ ~call.resp.success

\* C9, further witness cases: a success and a failure of a backend call.
C9_WitnessSuccess ==
    call.pc = "done" /\ call.resp.success /\ call.provider = "openrouter"

\* C10: once initialise has returned, no step of generate_response,
\* health_check, check_api_connectivity, their probes, or shutdown changes an
\* available flag.
C10_AvailabilitySticky ==
    [][init.pc = "done" => available' = available]_vars

\* C10 witness: a health check has found the live probe of an adapter false
\* while the adapter's available flag is, and stays, true.
C10_Witness ==
    \E i \in 1..Len(hc.providers) :
        /\ hc.providers[i].available
        /\ ~hc.providers[i].healthy
        /\ available[hc.providers[i].name]

\* C11: when initialise has returned, its result is true exactly when some
\* registered adapter has its available flag set; so it is false with an
\* empty registry and when every probe failed or faulted.
C11_InitialiseResult ==
    init.pc = "done" =>
        (init.result <=> \E i \in 1..Len(providers) : available[providers[i]])

\* C11 witness: initialise has returned true with one registered adapter
\* available and another one not.
C11_Witness ==
    /\ init.pc = "done"
    /\ init.result
    /\ \E i, j \in 1..Len(providers) :
          available[providers[i]] /\ ~available[providers[j]]

\* C11, further witness case: initialise has returned false with a registry
\* that is not empty.
C11_WitnessFalse ==
    init.pc = "done" /\ ~init.result /\ Len(providers) > 0

\* C12: the adapters whose initialise has been invoked are, in registry
\* order and each once, the registered adapters up to the one being
\* initialised, and all of them once initialise has returned, whatever the
\* earlier ones came back with; initialise ends by returning.
C12_EveryAdapterInitialisedOnce ==
    /\ init.pc \in {"new", "await", "done"}
    /\ IsPrefix(init.invoked, providers)
    /\ NoDuplicates(init.invoked)
    /\ init.pc = "await" => Len(init.invoked) = init.idx
    /\ init.pc = "done" => init.invoked = providers

\* C12 witness: the first adapter failed to initialise and a later one was
\* initialised and is available.
C12_Witness ==
    /\ init.pc = "done"
    /\ Len(providers) >= 2
    /\ ~available[providers[1]]
    /\ available[providers[2]]
    /\ init.invoked = providers

\* C13: health_check never ends by raising; an adapter whose probe faulted
\* is recorded as not healthy, and the check goes on to the remaining
\* adapters: its report has an entry for every registered adapter, in order.
C13_HealthCheckNeverRaises ==
    /\ hc.pc # "raised"
    /\ \A i \in 1..Len(hc.providers) :
          hc.providers[i].name \in hc.faulted => ~hc.providers[i].healthy
    /\ hc.pc = "done" =>
          [i \in 1..Len(hc.providers) |-> hc.providers[i].name] = providers

\* C13 witness: a health check has returned after the probe of an adapter
\* faulted, with an adapter after that one found healthy.
C13_Witness ==
    /\ hc.pc = "done"
    /\ \E i, j \in 1..Len(hc.providers) :
          /\ i < j
          /\ hc.providers[i].name \in hc.faulted
          /\ ~hc.providers[i].healthy
          /\ hc.providers[j].healthy

\* C14: in the report a health check returns, available_providers is at most
\* total_providers, total_providers is the number of registered adapters,
\* and the detail has one entry for each registered adapter.
C14_HealthAggregate ==
    hc.pc = "done" =>
        /\ hc.available_providers <= hc.total_providers
        /\ hc.total_providers = Len(providers)
        /\ Len(hc.providers) = Len(providers)
        /\ \A i \in 1..Len(providers) : hc.providers[i].name = providers[i]

\* C14 witness: a report over two or more adapters, some but not all of them
\* counted.
C14_Witness ==
    /\ hc.pc = "done"
    /\ Len(providers) >= 2
    /\ 0 < hc.available_providers
    /\ hc.available_providers < hc.total_providers

\* C15: the available count of a health report is the number of adapters
\* whose available flag is set, also when the probe of such an adapter
\* failed.
C15_Original ==
    hc.pc = "done" =>
        hc.available_providers =
            Cardinality({i \in 1..Len(hc.providers) : hc.providers[i].available})

\* C16: check_api_connectivity ends by returning one entry per registered
\* adapter, in order; an entry either has no error, or is not connected and
\* has an error text; an entry that is not connected does not keep the
\* adapters after it from being probed.
C16_ConnectivityReport ==
    /\ conn.pc \in {"idle", "await", "done"}
    /\ \A i \in 1..Len(conn.status) :
          /\ conn.status[i].name = providers[i]
          /\ \/ conn.status[i].error = None
             \/ ~conn.status[i].connected /\ conn.status[i].error # None
    /\ conn.pc = "await" => Len(conn.status) = conn.idx - 1
    /\ conn.pc = "done" => Len(conn.status) = Len(providers)

\* C16 witness: a report in which an adapter is not connected and a later
\* one is.
C16_Witness ==
    /\ conn.pc = "done"
    /\ \E i, j \in 1..Len(conn.status) :
          i < j /\ ~conn.status[i].connected /\ conn.status[j].connected

\* C17: when a shutdown ends, by returning or by raising, cleanup has been
\* invoked on every registered adapter.
C17_Original ==
    sd.pc \in {"done", "raised"} => sd.cleaned = providers

\* C18: no shutdown raises, and over all shutdowns each adapter's session is
\* released at most once.
C18_Original ==
    /\ sd.pc # "raised"
    /\ \A p \in ProviderNames : sd.released[p] <= 1

\* C19: once a shutdown has returned, no registered adapter has its
\* available flag set.
C19_Original ==
    sd.completed => \A i \in 1..Len(providers) : ~available[providers[i]]

\* C20: a health check never reports, while a shutdown is suspended at a
\* close, an adapter as available and live whose session is still open
\* beside an available adapter whose session is closed already and whose
\* probe it found dead.
C20_Original ==
    ~ /\ sd.pc = "await"
      /\ hc.pc = "done"
      /\ \E i, j \in 1..Len(hc.providers) :
            /\ session[hc.providers[i].name] = "closed"
            /\ hc.providers[i].available
            /\ ~hc.providers[i].healthy
            /\ session[hc.providers[j].name] = "open"
            /\ hc.providers[j].available
            /\ hc.providers[j].healthy

\* C21: a registered adapter whose api_key is still the placeholder of the
\* default configuration is not available, and its initialisation probe is
\* not waiting for a backend's answer.
C21_Original ==
    \A i \in 1..Len(providers) :
        LET p == providers[i] IN
        provider_configs[p]["api_key"] = DefaultConfig(p)["api_key"] =>
            /\ ~available[p]
            /\ ~(init.pc = "await" /\ init.idx = i)

\* C22: an adapter's generate_response never ends by raising, and a failed
\* response it returns has an error text.
C22_Original ==
    /\ call.pc # "raised"
    /\ call.pc = "done" /\ ~call.resp.success => call.resp.error # None

\* The categories an adapter declines.
Declines(p, task_type) ==
    \/ p = "mistral_codestral" /\ task_type \notin {"code_analysis", "code_generation"}
    \/ p = "huggingface" /\ task_type # "web_automation"

C23_WitnessHuggingFace ==
    /\ call.pc = "done"
    /\ call.provider = "huggingface"
    /\ call.task_type = "code_analysis"
    /\ ~call.resp.success

\* C24: once initialise has returned, no step of generate_response,
\* health_check, check_api_connectivity or shutdown changes the registry.
\* (The routing table is the constant routing_strategy: no step writes it.)
C24_RegistryWriteOnce ==
    [][init.pc = "done" => providers' = providers]_vars

\* C24 witness: a generate_response call has ended after a shutdown has
\* returned, with a registry of two or more adapters.
C24_Witness ==
    /\ init.pc = "done"
    /\ sd.completed
    /\ gen.pc = "done"
    /\ Len(providers) >= 2

\* The index of the first successful entry of a record of invocations, 0 if
\* there is none.
FirstSuccess(hist) ==
    IF \E i \in 1..Len(hist) : Succeeded(hist[i])
    THEN CHOOSE i \in 1..Len(hist) :
            /\ Succeeded(hist[i])
            /\ \A j \in 1..(i - 1) : ~Succeeded(hist[j])
    ELSE 0

\* C25: what a generate_response call invokes and returns is a function of
\* the task type, the registry, the available flags and what the invoked
\* adapters came back with: the adapters invoked are the effective order up
\* to its first adapter that succeeded, and the response is that adapter's,
\* or the exhaustion response when none succeeded.  Two calls that agree on
\* these therefore invoke the same adapters and return the same provider's
\* response.
C25_SelectionIsAFunction ==
    LET eo == EffectiveOrder(gen.task_type)
        k == FirstSuccess(gen.hist)
    IN  /\ gen.pc # "idle" => IsPrefix(Invoked, eo)
        /\ gen.pc = "done" =>
              /\ Invoked = SubSeq(eo, 1, IF k > 0 THEN k ELSE Len(eo))
              /\ gen.result = IF k > 0 THEN gen.hist[k].resp ELSE ExhaustedResponse
              /\ k > 0 => gen.result.provider = eo[k]

\* C25 witness: a call whose first adapter failed and whose second adapter
\* succeeded and gave the response.
C25_Witness ==
    /\ gen.pc = "done"
    /\ Len(gen.hist) = 2
    /\ ~Succeeded(gen.hist[1])
    /\ Succeeded(gen.hist[2])
    /\ gen.result.provider = gen.hist[2].provider

\* C26: within one generate_response call no adapter is invoked twice, every
\* invocation but the last has ended, by returning or by raising, before the
\* next began, and at most the last one is in flight.
C26_SequentialNoDuplicates ==
    /\ NoDuplicates(Invoked)
    /\ \A i \in 1..Len(gen.hist) : gen.hist[i].kind \in {"return", "raise"}
    /\ Len(Invoked) - Len(gen.hist) = IF gen.pc = "await" THEN 1 ELSE 0
    /\ gen.pc = "await" => Invoked[Len(Invoked)] = routing_order(gen.task_type)[gen.idx]

\* C26 witness: the second adapter of a call is in flight after the first
\* has returned a failure.
C26_Witness ==
    /\ gen.pc = "await"
    /\ Len(gen.hist) = 1
    /\ gen.hist[1].kind = "return"
    /\ ~gen.hist[1].resp.success
    /\ Len(Invoked) = 2

\* C29: an adapter called for a category it serves has issued one request to
\* its backend when it returns.
C29_Original ==
    call.pc \in {"done", "raised"} /\ ~Declines(call.provider, call.task_type) =>
        call.posts = 1

\* C27: when the pipeline's initialise has returned false, the agent is not
\* marked running.
C27_Original ==
    init.pc = "done" /\ ~init.result => agent.pc # "running"

\* C28: the configuration load_config has returned holds no placeholder
\* whose variable is set in the environment.
C28_Original ==
    agent.pc \notin {"none", "new", "crashed"} =>
        \A p \in DOMAIN provider_configs :
            \A k \in DOMAIN provider_configs[p] :
                IsPlaceholder(provider_configs[p][k]) =>
                    PlaceholderVar(provider_configs[p][k]) \notin agent.env

\* An entry that is there without a usable api_key.
Unusable(cfg) == ~Truthy(cfg, "api_key")

C31_RoutedWithinCategories ==
    \A i \in 1..Len(Invoked) : ~Declines(Invoked[i], gen.task_type)

\* generate_response has invoked the code model for a code category, and came
\* back from it.
C31_Witness ==
    /\ gen.pc = "done"
    /\ gen.task_type = "code_analysis"
    /\ \E i \in 1..Len(gen.hist) : gen.hist[i].provider = "mistral_codestral"

\* generate_response has invoked the web automation adapter for web
\* automation.
C31_WitnessHuggingFace ==
    /\ gen.pc = "done"
    /\ gen.task_type = "web_automation"
    /\ \E i \in 1..Len(gen.hist) : gen.hist[i].provider = "huggingface"

\* C32: a health check of the agent that was given a pipeline report with
\* every adapter available and healthy and a "healthy" status from every
\* other component returns the overall status "healthy" when every adapter's
\* connectivity probe said connected, and "limited" when one did not.
C32_Original ==
    /\ agent.health = "done"
    /\ agent.checked.pipeline
    /\ \A comp \in OtherComponents : agent.components[comp] = "healthy"
    => agent.overall_status = IF agent.checked.api THEN "healthy" ELSE "limited"

\* C33: when run has returned, the shutdown of its finally block has been
\* called and is over, and the value returned is False after a failed
\* initialisation or a runtime exception and True after the task loop's
\* normal exit; run returns nothing before that.
C33_ShutdownBeforeReturn ==
    /\ agent.pc = "returned" =>
          /\ agent.shutdown["fin"] = "done"
          /\ agent.shutdowns >= 1
          /\ ~agent.running
          /\ agent.path \in {"init_failed", "runtime_error", "loop_exit"}
          /\ agent.path \in {"init_failed", "runtime_error"} => agent.result = FALSE
          /\ agent.path = "loop_exit" => agent.result = TRUE
    /\ agent.pc # "returned" => agent.result = None

\* run has returned True: the task loop ended after a signal's shutdown.
C33_Witness ==
    /\ agent.pc = "returned"
    /\ agent.path = "loop_exit"
    /\ agent.result = TRUE

\* run has returned False, its initialisation having failed with the
\* pipeline constructed.
C33_WitnessInitFailed ==
    /\ agent.pc = "returned"
    /\ agent.path = "init_failed"
    /\ init.pc = "done"

\* run has returned False after a runtime exception.
C33_WitnessRuntimeError ==
    /\ agent.pc = "returned"
    /\ agent.path = "runtime_error"

\* C34: when the shutdown of run's finally is over and the pipeline exists,
\* that shutdown has called the pipeline's shutdown, whatever the shutdowns
\* of the components before it did.
C34_Original ==
    agent.shutdown["fin"] = "done" /\ init.pc # "new" => agent.released["fin"]

\* C35: when a signal has come while run was in the task loop, the
\* components' shutdowns and the pipeline's shutdown are called at most once
\* each, the signal's shutdown task and run's finally taken together.
C35_Original ==
    agent.signal_in_loop =>
        /\ agent.shutdowns <= 1
        /\ agent.pipeline_shutdowns <= 1

\* C36: process_task_queue ends only at its loop test, with running false:
\* no fault of process_pending_tasks or perform_maintenance ends it; with
\* running false no further iteration begins; and once running is false
\* while the loop is active, the loop is eventually left.
C36_LoopResilientAndStoppable ==
    /\ [][agent.loop # "exited" /\ agent'.loop = "exited" =>
            agent.loop = "top" /\ ~agent.running]_vars
    /\ [][agent.loop = "top" /\ agent'.loop = "tasks" => agent.running]_vars
    /\ (agent.loop \in {"top", "tasks", "maintenance", "sleep", "errsleep"}
            /\ ~agent.running)
         ~> (agent.loop = "exited")

\* The loop has been left after a signal that came while it was running.
C36_Witness ==
    /\ agent.loop = "exited"
    /\ agent.signal_in_loop
    /\ agent.path = "loop_exit"

\* The loop is in its extended sleep after a fault, and still running.
C36_WitnessFault ==
    /\ agent.loop = "errsleep"
    /\ agent.running

====
